---- MODULE Spec2Model ----
(***************************************************************************)
(* A model of the legacy-VTK codec: the write engine of src/src/writer.rs  *)
(* (one traversal of a Vtk document emitting chunks into a Vec<u8> or a    *)
(* String sink) and the scalar decode layer of src/src/basic.rs.           *)
(*                                                                         *)
(* The sink content is a sequence of chunks, one chunk per call that       *)
(* appends to the sink (one write!/writeln! call, or one binary element    *)
(* write).  A chunk is [k, sec, s, n, b]: k is the keyword (or the kind of *)
(* payload), sec the section that emits it, s its string arguments, n its  *)
(* numeric arguments, b its payload (bytes on the binary sink, the values  *)
(* rendered as text on the text sink).                                     *)
(***************************************************************************)
EXTENDS Integers, Sequences, FiniteSets, TLC

\* The write engine: the sink's type, the byte order and document of the call,
\* its emission steps, the position in them, the sink content, the result.
VARIABLES sinkT, BO, vtk, prog, pc, sink, result
\* The history of the sink: its content when the call in progress was made,
\* and the calls that returned before it.
VARIABLES prior, earlier

\* The decode layer: the input bytes, the file type they are read as, the
\* buffer they were written from (if any), the operation applied, its result.
VARIABLES dIn, dFt, dSrc, dOp, dOut

wvars == <<sinkT, BO, vtk, prog, pc, sink, result, prior, earlier>>

dvars == <<dIn, dFt, dSrc, dOp, dOut>>

vars == <<wvars, dvars>>

\* ------------------------------------------------------------------ bounds
MaxAttrs == 1
MaxTopo == 2
MaxArrays == 2
MaxBytes == 9
MaxChars == 4
MaxCount == 2
MaxBits == 9
MaxCalls == 2

\* ------------------------------------------------------------ small helpers
RECURSIVE Concat(_)
Concat(ss) == IF ss = <<>> THEN <<>> ELSE Head(ss) \o Concat(Tail(ss))

Reverse(s) == [i \in 1..Len(s) |-> s[Len(s) + 1 - i]]

Last(s) == s[Len(s)]

SeqsUpTo(U, k) == UNION {[1..m -> U] : m \in 0..k}

IsPrefix(a, b) == Len(a) <= Len(b) /\ a = SubSeq(b, 1, Len(a))

\* ----------------------------------------------------- scalar types, bytes
ScalarTypes == {"u8", "i8", "u16", "i16", "u32", "i32", "u64", "i64", "f32", "f64"}

size_of(T) ==
    CASE T \in {"u8", "i8"} -> 1
      [] T \in {"u16", "i16"} -> 2
      [] T \in {"u32", "i32", "f32"} -> 4
      [] T \in {"u64", "i64", "f64"} -> 8

\* The w radix-256 digits of a non-negative integer, least significant first.
RECURSIVE Digits(_, _)
Digits(v, w) == IF w = 0 THEN <<>> ELSE <<v % 256>> \o Digits(v \div 256, w - 1)

\* The two's-complement bit pattern of v at the width of T, as radix-256
\* digits, least significant first (a float is given by its IEEE bit pattern).
ToLimbs(v, T) ==
    IF v >= 0 THEN Digits(v, size_of(T))
    ELSE [i \in 1..size_of(T) |-> 255 - Digits(-(v + 1), size_of(T))[i]]

\* (mutant) the byte order parameter is ignored
write_elem_le_always(T, bo, v) == ToLimbs(v, T)

\* byteorder's WriteBytesExt::write_{u8,i8,u16,..}::<BO>: the bytes of one element.
write_elem(T, bo, v) ==
    IF size_of(T) = 1 \/ bo = "LE" THEN ToLimbs(v, T) ELSE Reverse(ToLimbs(v, T))

\* DataType::from(type_id): the type tag of the header lines.
DataType(T) ==
    CASE T = "u8" -> "unsigned_char"
      [] T = "i8" -> "char"
      [] T = "u16" -> "unsigned_short"
      [] T = "i16" -> "short"
      [] T = "u32" -> "unsigned_int"
      [] T = "i32" -> "int"
      [] T = "u64" -> "unsigned_long"
      [] T = "i64" -> "long"
      [] T = "f32" -> "float"
      [] T = "f64" -> "double"

\* ------------------------------------------------------------------ chunks
Chunk(k, sec, s, n, b) == [k |-> k, sec |-> sec, s |-> s, n |-> n, b |-> b]

Line(k, s, n) == Chunk(k, "", s, n, <<>>)

NewLineChunk(sec) == Chunk("nl", sec, <<>>, <<>>, <<>>)

\* ------------------------------------------------------------------- errors
\* error::Error and its nested enums, as the path of variant names.
IOErrorKinds == {"WriteZero", "Other"}

\* impl From<std::io::Error> for Error
FromIoError(kind) == <<"IOError", kind>>

\* impl From<std::fmt::Error> for Error
FromFmtError == <<"FormatError">>

\* impl Into<Option<std::io::ErrorKind>> for Error
IntoErrorKind(e) == IF e[1] = "IOError" THEN <<"Some", e[2]>> ELSE <<"None">>

\* The three shapes of error mapping in the writer:
\*   .map_err(|_| tag)                    Const(tag)
\*   .map_err(|e| sec(Data(e.into())))    DataOf(sec)
\*   ?                                    no mapper
Const(tag) == [m |-> "const", tag |-> tag]

DataOf(sec) == [m |-> "data", tag |-> sec]

RECURSIVE MapErr(_, _)
MapErr(e, ms) ==
    IF ms = <<>> THEN e
    ELSE MapErr(IF Head(ms).m = "const" THEN Head(ms).tag
                ELSE Head(ms).tag \o <<"Data">> \o IntoErrorKind(e),
                Tail(ms))

\* -------------------------------------------------------------------- steps
\* One step of the traversal: op "fmt" is one write!/writeln! call, "elem" one
\* binary element write, "panic" a point where the code panics, "ovf" an
\* unsigned subtraction below zero (panics with overflow checks, wraps
\* without).  ms are the error mappings between the step and the caller.
Fmt(chunk, ms) == [op |-> "fmt", out |-> chunk, ms |-> ms]

Elem(chunk) == [op |-> "elem", out |-> chunk, ms |-> <<>>]

PanicStep(why) == [op |-> "panic", out |-> Line(why, <<>>, <<>>), ms |-> <<>>]

OvfStep == [op |-> "ovf", out |-> Line("overflow", <<>>, <<>>), ms |-> <<>>]

\* f(..).map_err(m) around the steps of f
WithMap(steps, m) == [i \in 1..Len(steps) |-> [steps[i] EXCEPT !.ms = Append(@, m)]]

\* ------------------------------------------------ sink adapters (Vec<u8>)
\* impl WriteVtkImpl for Vec<u8>: write_file_type
Vec_write_file_type == <<Fmt(Line("BINARY", <<>>, <<>>), <<Const(<<"Header", "FileType">>)>>)>>

\* impl WriteVtkImpl for Vec<u8>: write_buf (write_buf_impl, then writeln!)
Vec_write_buf(bo, buf, sec) ==
    [i \in 1..Len(buf.v) |->
        Elem(Chunk("elem", sec, <<buf.ty>>, <<>>, write_elem(buf.ty, bo, buf.v[i])))]
    \o <<Fmt(NewLineChunk(sec), <<>>)>>

\* impl WriteVtkImpl for Vec<u8>: write_u32_vec
Vec_write_u32_vec(bo, data, sec) == Vec_write_buf(bo, [ty |-> "u32", v |-> data], sec)

CellTypesData == <<"DataSet", "UnstructuredGrid", "CellTypes", "Data">>

\* impl WriteVtkImpl for Vec<u8>: write_cell_types
Vec_write_cell_types(bo, data) ==
    [i \in 1..Len(data) |->
        [op |-> "elem",
         out |-> Chunk("elem", "CellTypes", <<"i32">>, <<>>, write_elem("i32", bo, data[i])),
         ms |-> <<DataOf(<<"DataSet", "UnstructuredGrid", "CellTypes">>)>>]]
    \o <<Fmt(NewLineChunk("CellTypes"), <<Const(<<"NewLine">>)>>)>>

\* ------------------------------------------------- sink adapters (String)
\* impl WriteVtkImpl for String: write_file_type
String_write_file_type == <<Fmt(Line("ASCII", <<>>, <<>>), <<Const(<<"Header", "FileType">>)>>)>>

\* impl WriteVtkImpl for String: write_buf (the buffer's Display, then a newline)
String_write_buf(buf, sec) == <<Fmt(Chunk("buf", sec, <<buf.ty>>, <<>>, buf.v), <<>>)>>

\* impl WriteVtkImpl for String: write_u32_vec
String_write_u32_vec(data, sec) ==
    Concat([i \in 1..Len(data) |->
        <<Fmt(Chunk("tok", sec, <<"u32">>, <<>>, <<data[i]>>), <<>>)>>
        \o (IF i - 1 < Len(data) - 1
            THEN <<Fmt(Chunk("sp", sec, <<>>, <<>>, <<>>), <<>>)>> ELSE <<>>)])
    \o <<Fmt(NewLineChunk(sec), <<>>)>>

\* impl WriteVtkImpl for String: write_cell_types
String_write_cell_types(data) ==
    [i \in 1..Len(data) |->
        Fmt(Chunk("tok", "CellTypes", <<"u8">>, <<>>, <<data[i] % 256>>),
            <<Const(CellTypesData \o <<"None">>)>>)]
    \o <<Fmt(NewLineChunk("CellTypes"), <<Const(CellTypesData \o <<"None">>)>>)>>

\* ---------------------------------------------------- dispatch on the sink
\* (mutant) the code of the first cell is not written
write_cell_types_skip_first(S, bo, data) ==
    IF S = "Vec" THEN Vec_write_cell_types(bo, SubSeq(data, 2, Len(data)))
    ELSE String_write_cell_types(SubSeq(data, 2, Len(data)))

write_file_type(S) == IF S = "Vec" THEN Vec_write_file_type ELSE String_write_file_type

write_buf(S, bo, buf, sec) ==
    IF S = "Vec" THEN Vec_write_buf(bo, buf, sec) ELSE String_write_buf(buf, sec)

write_u32_vec(S, bo, data, sec) ==
    IF S = "Vec" THEN Vec_write_u32_vec(bo, data, sec) ELSE String_write_u32_vec(data, sec)

write_cell_types(S, bo, data) ==
    IF S = "Vec" THEN Vec_write_cell_types(bo, data) ELSE String_write_cell_types(data)

\* ------------------------------------------------------------- attributes
AttrErr(kind, part) == <<"Attribute", kind, part>>

\* The header line of a field array: "{name} {num_comp} {len / num_comp} {type}".
\* The quotient is evaluated before anything is written; num_comp = 0 panics.
FieldArrayHeader(field, m) ==
    IF field.num_comp = 0 THEN PanicStep("divide by zero")
    ELSE Fmt(Line("array", <<field.name, DataType(field.data.ty)>>,
                  <<field.num_comp, Len(field.data.v) \div field.num_comp>>), <<m>>)

\* One arm of the match in write_attrib_data, for the kinds made of a header
\* line and a buffer.
AttribEntry(S, bo, kind, header, data) ==
    <<Fmt(header, <<Const(AttrErr(kind, "Header"))>>)>>
    \o WithMap(write_buf(S, bo, data, "Attribute"), DataOf(<<"Attribute", kind>>))

\* (mutant) no name is substituted for a missing lookup table
lookup_table_or_empty(a) == IF a.lookup_table = <<>> THEN "" ELSE a.lookup_table[1]

\* lookup_table.unwrap_or_else(|| String::from("default"))
lookup_table_or_default(a) == IF a.lookup_table = <<>> THEN "default" ELSE a.lookup_table[1]

write_attrib_one(S, bo, name, a) ==
    <<Fmt(NewLineChunk(""), <<Const(<<"NewLine">>)>>)>>
    \o CASE a.t = "Scalars" ->
              <<Fmt(Line("SCALARS", <<name, DataType(a.data.ty)>>, <<a.num_comp>>),
                    <<Const(AttrErr("Scalars", "Header"))>>),
                Fmt(Line("LOOKUP_TABLE", <<lookup_table_or_default(a)>>, <<>>),
                    <<Const(AttrErr("Scalars", "LookupTable"))>>)>>
              \o WithMap(write_buf(S, bo, a.data, "Attribute"), DataOf(<<"Attribute", "Scalars">>))
         [] a.t = "ColorScalars" ->
              AttribEntry(S, bo, "ColorScalars",
                          Line("COLOR_SCALARS", <<name>>, <<a.num_comp>>), a.data)
         [] a.t = "LookupTable" ->
              AttribEntry(S, bo, "LookupTable",
                          Line("LOOKUP_TABLE", <<name>>, <<Len(a.data.v) \div 4>>), a.data)
         [] a.t = "Vectors" ->
              AttribEntry(S, bo, "Vectors",
                          Line("VECTORS", <<name, DataType(a.data.ty)>>, <<>>), a.data)
         [] a.t = "Normals" ->
              AttribEntry(S, bo, "Normals",
                          Line("NORMALS", <<name, DataType(a.data.ty)>>, <<>>), a.data)
         [] a.t = "TextureCoordinates" ->
              AttribEntry(S, bo, "TextureCoordinates",
                          Line("TEXTURE_COORDINATES", <<name, DataType(a.data.ty)>>, <<a.dim>>),
                          a.data)
         [] a.t = "Tensors" ->
              AttribEntry(S, bo, "Tensors",
                          Line("TENSORS", <<name, DataType(a.data.ty)>>, <<>>), a.data)
         [] a.t = "Field" ->
              <<Fmt(Line("FIELD", <<name>>, <<Len(a.data_array)>>),
                    <<Const(AttrErr("Field", "Header"))>>)>>
              \o Concat([j \in 1..Len(a.data_array) |->
                   <<FieldArrayHeader(a.data_array[j], Const(AttrErr("FieldArray", "Header")))>>
                   \o WithMap(write_buf(S, bo, a.data_array[j].data, "FieldArray"),
                              DataOf(<<"Attribute", "FieldArray">>))])

\* WriteVtkImpl::write_attrib_data
write_attrib_data(S, bo, data) ==
    Concat([i \in 1..Len(data) |-> write_attrib_one(S, bo, data[i].name, data[i].attrib)])

\* (mutant) the CELL_DATA header is skipped when there are no cell attributes
write_attrib_skips_empty(S, bo, data, num_points, num_cells) ==
    <<Fmt(Line("POINT_DATA", <<>>, <<num_points>>), <<Const(<<"PointDataHeader">>)>>)>>
    \o write_attrib_data(S, bo, data.point)
    \o (IF data.cell = <<>> THEN <<>>
        ELSE <<Fmt(Line("CELL_DATA", <<>>, <<num_cells>>), <<Const(<<"CellDataHeader">>)>>)>>)
    \o write_attrib_data(S, bo, data.cell)

\* WriteVtkImpl::write_attrib
write_attrib(S, bo, data, num_points, num_cells) ==
    <<Fmt(Line("POINT_DATA", <<>>, <<num_points>>), <<Const(<<"PointDataHeader">>)>>)>>
    \o write_attrib_data(S, bo, data.point)
    \o <<Fmt(Line("CELL_DATA", <<>>, <<num_cells>>), <<Const(<<"CellDataHeader">>)>>)>>
    \o write_attrib_data(S, bo, data.cell)

\* ---------------------------------------------------------------- datasets
\* Extent::into_dims: per axis, max - min + 1.
into_dims(extent) == [i \in 1..3 |-> extent[i][2] - extent[i][1] + 1]

DsErr(kind, part) == <<"DataSet", kind>> \o part

\* "POINTS {len / 3} {type}" and the points buffer, as written by the PolyData,
\* UnstructuredGrid and StructuredGrid arms.
PointsBlock(S, bo, kind, points) ==
    <<Fmt(Line("POINTS", <<DataType(points.ty)>>, <<Len(points.v) \div 3>>),
          <<Const(DsErr(kind, <<"Points", "Header">>))>>)>>
    \o WithMap(write_buf(S, bo, points, "Points"), DataOf(<<"DataSet", kind, "Points">>))

\* "DIMENSIONS {} {} {}"
DimensionsLine(kind, dims) ==
    Fmt(Line("DIMENSIONS", <<>>, <<dims[1], dims[2], dims[3]>>),
        <<Const(DsErr(kind, <<"Dimensions">>))>>)

\* "{X|Y|Z}_COORDINATES {len} {type}" and the buffer of one axis.
CoordsBlock(S, bo, kw, part, coords) ==
    <<Fmt(Line(kw, <<DataType(coords.ty)>>, <<Len(coords.v)>>),
          <<Const(DsErr("RectilinearGrid", <<part, "Header">>))>>)>>
    \o WithMap(write_buf(S, bo, coords, part), DataOf(<<"DataSet", "RectilinearGrid", part>>))

TopoTag(kind) ==
    CASE kind = "Vertices" -> "VERTICES"
      [] kind = "Lines" -> "LINES"
      [] kind = "Polygons" -> "POLYGONS"
      [] kind = "TriangleStrips" -> "TRIANGLE_STRIPS"

\* One iteration of the loop over topo in the PolyData arm.
TopoBlock(S, bo, topo_type) ==
    <<Fmt(Line(TopoTag(topo_type.kind), <<>>, <<>>),
          <<Const(DsErr("PolyData", <<"Cells", "Tags">>))>>),
      Fmt(Line("sizes", <<>>, <<topo_type.cells.num_cells, Len(topo_type.cells.vertices)>>),
          <<Const(DsErr("PolyData", <<"Cells", "Sizes">>))>>)>>
    \o WithMap(write_u32_vec(S, bo, topo_type.cells.vertices, "Cells"),
               DataOf(<<"DataSet", "PolyData", "Cells">>))

\* (mutant) the groups are written last to first
TopoLoop_reversed(S, bo, topo) ==
    Concat([j \in 1..Len(topo) |-> TopoBlock(S, bo, topo[Len(topo) + 1 - j])])

\* for topo_type in topo { .. }: the groups are written in the caller's order.
TopoLoop(S, bo, topo) == Concat([j \in 1..Len(topo) |-> TopoBlock(S, bo, topo[j])])

RECURSIVE SumCells(_)
SumCells(topo) ==
    IF topo = <<>> THEN 0 ELSE Head(topo).cells.num_cells + SumCells(Tail(topo))

\* (mutant) the cell count is the one the dimensions imply
structured_grid_cells_from_dims(dims) == (dims[1] - 1) * (dims[2] - 1) * (dims[3] - 1)

\* self.write_attrib::<BO>(data, num_points, 1): the cell count of a
\* StructuredGrid is the literal 1, whatever the dimensions.
structured_grid_cells(dims) == 1

\* (mutant) the keyword of the old format is kept up to version 2
spacing_keyword_late(version) == IF version.major < 3 THEN "ASPECT_RATIO" ELSE "SPACING"

\* if vtk.version.major < 2 { "ASPECT_RATIO" } else { "SPACING" }
spacing_keyword(version) == IF version.major < 2 THEN "ASPECT_RATIO" ELSE "SPACING"

\* The match on vtk.data in write_vtk_impl.
write_dataset(S, bo, version, d) ==
    CASE d.t = "Field" ->
           <<Fmt(Line("FIELD", <<d.name>>, <<Len(d.data_array)>>),
                 <<Const(<<"DataSet", "FieldDataHeader">>)>>)>>
           \o Concat([j \in 1..Len(d.data_array) |->
                <<FieldArrayHeader(d.data_array[j],
                                   Const(<<"DataSet", "FieldArray", "Header">>))>>
                \o WithMap(write_buf(S, bo, d.data_array[j].data, "FieldArray"),
                           DataOf(<<"DataSet", "FieldArray">>))])
      [] d.t = "PolyData" ->
           <<Fmt(Line("DATASET", <<"POLYDATA">>, <<>>),
                 <<Const(DsErr("PolyData", <<"Tags">>))>>)>>
           \o PointsBlock(S, bo, "PolyData", d.points)
           \o <<Fmt(NewLineChunk(""), <<Const(<<"NewLine">>)>>)>>
           \o TopoLoop(S, bo, d.topo)
           \o write_attrib(S, bo, d.data, Len(d.points.v) \div 3, SumCells(d.topo))
      [] d.t = "UnstructuredGrid" ->
           <<Fmt(Line("DATASET", <<"UNSTRUCTURED_GRID">>, <<>>),
                 <<Const(DsErr("UnstructuredGrid", <<"Tags">>))>>)>>
           \o PointsBlock(S, bo, "UnstructuredGrid", d.points)
           \o <<Fmt(Line("CELLS", <<>>, <<d.cells.num_cells, Len(d.cells.vertices)>>),
                    <<Const(DsErr("UnstructuredGrid", <<"Cells", "Header">>))>>)>>
           \o WithMap(write_u32_vec(S, bo, d.cells.vertices, "Cells"),
                      DataOf(<<"DataSet", "UnstructuredGrid", "Cells">>))
           \o <<Fmt(Line("CELL_TYPES", <<>>, <<Len(d.cell_types)>>),
                    <<Const(DsErr("UnstructuredGrid", <<"CellTypes", "Header">>))>>)>>
           \o write_cell_types(S, bo, d.cell_types)
           \o write_attrib(S, bo, d.data, Len(d.points.v) \div 3, d.cells.num_cells)
      [] d.t = "ImageData" ->
           LET dims == into_dims(d.extent) IN
           <<Fmt(Line("DATASET", <<"STRUCTURED_POINTS">>, <<>>),
                 <<Const(DsErr("StructuredPoints", <<"Tags">>))>>),
             DimensionsLine("StructuredPoints", dims),
             Fmt(Line("ORIGIN", <<>>, d.origin),
                 <<Const(DsErr("StructuredPoints", <<"Origin">>))>>),
             Fmt(Line(spacing_keyword(version), <<>>, <<>>),
                 <<Const(DsErr("StructuredPoints", <<"Spacing", "Tags">>))>>),
             Fmt(Line("sizes", <<>>, d.spacing),
                 <<Const(DsErr("StructuredPoints", <<"Spacing", "Sizes">>))>>)>>
           \o write_attrib(S, bo, d.data, dims[1] * dims[2] * dims[3], 0)
      [] d.t = "StructuredGrid" ->
           LET dims == into_dims(d.extent) IN
           <<Fmt(Line("DATASET", <<"STRUCTURED_GRID">>, <<>>),
                 <<Const(DsErr("StructuredGrid", <<"Tags">>))>>),
             DimensionsLine("StructuredGrid", dims)>>
           \o PointsBlock(S, bo, "StructuredGrid", d.points)
           \o (IF dims[1] * dims[2] * dims[3] = Len(d.points.v) \div 3 THEN <<>>
               ELSE <<PanicStep("assert_eq")>>)
           \o write_attrib(S, bo, d.data, Len(d.points.v) \div 3, structured_grid_cells(dims))
      [] d.t = "RectilinearGrid" ->
           LET dims == into_dims(d.extent)
               nx == Len(d.x_coords.v)
               ny == Len(d.y_coords.v)
               nz == Len(d.z_coords.v)
           IN
           <<Fmt(Line("DATASET", <<"RECTILINEAR_GRID">>, <<>>),
                 <<Const(DsErr("RectilinearGrid", <<"Tags">>))>>),
             DimensionsLine("RectilinearGrid", dims)>>
           \o CoordsBlock(S, bo, "X_COORDINATES", "XCoordinates", d.x_coords)
           \o CoordsBlock(S, bo, "Y_COORDINATES", "YCoordinates", d.y_coords)
           \o CoordsBlock(S, bo, "Z_COORDINATES", "ZCoordinates", d.z_coords)
           \o (IF nx = 0 \/ ny = 0 \/ nz = 0 THEN <<OvfStep>> ELSE <<>>)
           \* A negative count stands for the usize it is congruent to modulo 2^64.
           \o write_attrib(S, bo, d.data, nx * ny * nz, (nx - 1) * (ny - 1) * (nz - 1))

\* (mutant) the file type is declared before the title line
write_vtk_impl_type_first(S, bo, v) ==
    <<Fmt(Line("# vtk DataFile Version", <<>>, <<v.version.major, v.version.minor>>),
          <<Const(<<"Header", "Version">>)>>)>>
    \o write_file_type(S)
    \o <<Fmt(Line("title", <<v.title>>, <<>>), <<Const(<<"Header", "Version">>)>>)>>
    \o write_dataset(S, bo, v.version, v.data)
    \o <<Fmt(NewLineChunk(""), <<Const(<<"NewLine">>)>>)>>

\* WriteVtkImpl::write_vtk_impl: the emission steps of one write, in program order.
write_vtk_impl(S, bo, v) ==
    <<Fmt(Line("# vtk DataFile Version", <<>>, <<v.version.major, v.version.minor>>),
          <<Const(<<"Header", "Version">>)>>),
      Fmt(Line("title", <<v.title>>, <<>>), <<Const(<<"Header", "Version">>)>>)>>
    \o write_file_type(S)
    \o write_dataset(S, bo, v.version, v.data)
    \o <<Fmt(NewLineChunk(""), <<Const(<<"NewLine">>)>>)>>

\* ------------------------------------------------------ documents written
Buf(ty, v) == [ty |-> ty, v |-> v]

Attr(t, num_comp, lookup_table, dim, data, data_array) ==
    [t |-> t, num_comp |-> num_comp, lookup_table |-> lookup_table, dim |-> dim,
     data |-> data, data_array |-> data_array]

FieldArray(name, num_comp, data) == [name |-> name, num_comp |-> num_comp, data |-> data]

Named(name, attrib) == [name |-> name, attrib |-> attrib]

FieldArrays ==
    {FieldArray("a", 1, Buf("u8", <<7>>)),
     FieldArray("b", 2, Buf("i16", <<258, -2>>)),
     FieldArray("z", 0, Buf("u8", <<7>>))}

\* One attribute of each kind.
AttribKinds ==
    {Named("s", Attr("Scalars", 1, <<>>, 0, Buf("i16", <<258>>), <<>>)),
     Named("c", Attr("ColorScalars", 3, <<>>, 0, Buf("u8", <<1, 2, 3>>), <<>>)),
     Named("l", Attr("LookupTable", 0, <<>>, 0, Buf("u8", <<1, 2, 3, 4>>), <<>>)),
     Named("v", Attr("Vectors", 0, <<>>, 0, Buf("i16", <<258>>), <<>>)),
     Named("n", Attr("Normals", 0, <<>>, 0, Buf("u8", <<7>>), <<>>)),
     Named("t", Attr("TextureCoordinates", 0, <<>>, 2, Buf("u8", <<7>>), <<>>)),
     Named("e", Attr("Tensors", 0, <<>>, 0, Buf("u8", <<>>), <<>>)),
     Named("f", Attr("Field", 0, <<>>, 0, Buf("u8", <<>>),
                     <<FieldArray("a", 1, Buf("u8", <<7>>))>>))}

Attributes(point, cell) == [point |-> point, cell |-> cell]

\* Every list of attributes up to the bound, as the point list or as the cell list.
AttributesFull ==
    {Attributes(p, <<>>) : p \in SeqsUpTo(AttribKinds, MaxAttrs)}
    \cup {Attributes(<<>>, c) : c \in SeqsUpTo(AttribKinds, MaxAttrs)}

AttributesSmall ==
    {Attributes(<<>>, <<>>),
     Attributes(<<Named("s", Attr("Scalars", 1, <<>>, 0, Buf("i16", <<258>>), <<>>))>>,
                <<Named("n", Attr("Normals", 0, <<>>, 0, Buf("u8", <<7>>), <<>>))>>),
     Attributes(<<Named("s", Attr("Scalars", 2, <<"lut">>, 0, Buf("u8", <<7, 8>>), <<>>))>>,
                <<Named("g", Attr("Field", 0, <<>>, 0, Buf("u8", <<>>),
                                  <<FieldArray("a", 1, Buf("u8", <<7>>)),
                                    FieldArray("z", 0, Buf("u8", <<7>>))>>))>>),
     Attributes(<<Named("v", Attr("Vectors", 0, <<>>, 0, Buf("i16", <<258>>), <<>>)),
                  Named("s", Attr("Scalars", 1, <<>>, 0, Buf("u8", <<7>>), <<>>))>>,
                <<>>),
     Attributes(<<>>, <<Named("k", Attr("Scalars", 1, <<"lut">>, 0, Buf("i16", <<-2>>), <<>>))>>),
     Attributes(<<>>,
                <<Named("t", Attr("TextureCoordinates", 0, <<>>, 2, Buf("u8", <<7>>), <<>>)),
                  Named("c", Attr("ColorScalars", 3, <<>>, 0, Buf("u8", <<1, 2, 3>>), <<>>))>>)}

\* 1.0f32 has the bit pattern 0x3F800000.
PointBufs == {Buf("f32", <<>>), Buf("f32", <<0, 1065353216, 0>>), Buf("i16", <<1, 2, 3, 4, 5, 6>>)}

Cells(num_cells, vertices) == [num_cells |-> num_cells, vertices |-> vertices]

TopoKinds == {"Vertices", "Lines", "Polygons", "TriangleStrips"}

TopoGroups == {[kind |-> k, cells |-> Cells(1, <<2, 0, 1>>)] : k \in TopoKinds}

Extents == {<<<<0, 0>>, <<0, 0>>, <<0, 0>>>>, <<<<0, 1>>, <<2, 2>>, <<-1, -1>>>>}

CoordBufs == {Buf("f32", <<>>), Buf("u8", <<5>>), Buf("i16", <<0, 258>>)}

Versions == {[major |-> 1, minor |-> 0], [major |-> 2, minor |-> 0], [major |-> 4, minor |-> 2]}

DataSets ==
    {[t |-> "Field", name |-> "fd", data_array |-> a] : a \in SeqsUpTo(FieldArrays, MaxArrays)}
    \cup {[t |-> "PolyData", points |-> p, topo |-> tp, data |-> a] :
            p \in {Buf("f32", <<0, 1065353216, 0>>)},
            tp \in SeqsUpTo(TopoGroups, MaxTopo), a \in AttributesSmall}
    \cup {[t |-> "UnstructuredGrid", points |-> p, cells |-> Cells(Len(ct), <<2, 0, 1>>),
           cell_types |-> ct, data |-> a] :
            p \in PointBufs, ct \in {<<>>, <<1>>, <<3, 12>>}, a \in AttributesSmall}
    \cup {[t |-> "UnstructuredGrid", points |-> Buf("f32", <<>>), cells |-> Cells(nc, <<2, 0, 1>>),
           cell_types |-> ct, data |-> Attributes(<<>>, <<>>)] :
            nc \in {0, 2}, ct \in {<<1>>, <<3, 12>>}}
    \cup {[t |-> "ImageData", extent |-> e, origin |-> <<0, 0, 0>>, spacing |-> <<1, 1, 2>>,
           data |-> a] : e \in Extents, a \in AttributesSmall}
    \cup {[t |-> "ImageData", extent |-> <<<<0, 1>>, <<2, 2>>, <<-1, -1>>>>,
           origin |-> <<0, 0, 0>>, spacing |-> <<1, 1, 2>>, data |-> a] :
            a \in AttributesFull}
    \cup {[t |-> "StructuredGrid", extent |-> e, points |-> p, data |-> a] :
            e \in Extents, p \in PointBufs, a \in AttributesSmall}
    \cup {[t |-> "RectilinearGrid", extent |-> <<<<0, 0>>, <<0, 0>>, <<0, 0>>>>,
           x_coords |-> x, y_coords |-> y, z_coords |-> z, data |-> Attributes(<<>>, <<>>)] :
            x \in CoordBufs, y \in CoordBufs, z \in CoordBufs}

\* ImageData is the one kind whose output depends on the version.
Docs ==
    {[version |-> ver, title |-> "t", data |-> d] :
        ver \in Versions,
        d \in {x \in DataSets : x.t = "ImageData" /\ x.data \in AttributesSmall}}
    \cup {[version |-> [major |-> 2, minor |-> 0], title |-> "t", data |-> d] : d \in DataSets}

NoDoc == [version |-> [major |-> 0, minor |-> 0], title |-> "", data |-> [t |-> "none"]]

\* ------------------------------------------------------- the write engine
Init ==
    /\ sinkT \in {"Vec", "String"}
    /\ BO = "none"
    /\ vtk = NoDoc
    /\ prog = <<>>
    /\ pc = 0
    /\ sink = <<>>
    /\ result = <<>>
    /\ prior = <<>>
    /\ earlier = <<>>
    /\ dIn = <<>> /\ dFt = "none" /\ dSrc = <<>> /\ dOp = <<>> /\ dOut = <<>>

\* The body shared by the three entry points: self.write_vtk_impl::<BO>(vtk).
Begin(bo, v) ==
    /\ pc = 0
    /\ BO' = bo
    /\ vtk' = v
    /\ prog' = write_vtk_impl(sinkT, bo, v)
    /\ pc' = 1
    /\ prior' = sink
    /\ UNCHANGED <<sinkT, sink, result, earlier, dvars>>

\* WriteVtk::write_vtk: NativeEndian is the byte order of the platform.
write_vtk == \E v \in Docs, bo \in {"LE", "BE"} : Begin(bo, v)

\* WriteVtk::write_vtk_le
write_vtk_le == \E v \in Docs : Begin("LE", v)

\* WriteVtk::write_vtk_be
write_vtk_be == \E v \in Docs : Begin("BE", v)

Running == pc \in 1..Len(prog) /\ result = <<>>

\* One write!/writeln! call, or one element write, succeeds and appends.
write_fmt ==
    /\ Running
    /\ prog[pc].op \in {"fmt", "elem"}
    /\ sink' = Append(sink, prog[pc].out)
    /\ pc' = pc + 1
    /\ UNCHANGED <<sinkT, BO, vtk, prog, result, prior, earlier, dvars>>

\* (mutant) the io error is dropped and the traversal goes on
FailIo_swallowed ==
    /\ Running
    /\ sinkT = "Vec"
    /\ prog[pc].op \in {"fmt", "elem"}
    /\ pc' = pc + 1
    /\ UNCHANGED <<sinkT, BO, vtk, prog, sink, result, prior, earlier, dvars>>

\* The call fails on the binary sink with an std::io::Error: `?` returns the
\* mapped error.
FailIo ==
    /\ Running
    /\ sinkT = "Vec"
    /\ prog[pc].op \in {"fmt", "elem"}
    /\ \E kind \in IOErrorKinds :
         result' = <<"Err">> \o MapErr(FromIoError(kind), prog[pc].ms)
    /\ UNCHANGED <<sinkT, BO, vtk, prog, pc, sink, prior, earlier, dvars>>

\* The call fails on the text sink with an std::fmt::Error.
FailFmt ==
    /\ Running
    /\ sinkT = "String"
    /\ prog[pc].op = "fmt"
    /\ result' = <<"Err">> \o MapErr(FromFmtError, prog[pc].ms)
    /\ UNCHANGED <<sinkT, BO, vtk, prog, pc, sink, prior, earlier, dvars>>

\* A division by zero or a failed assert_eq! unwinds out of the write.
Panic ==
    /\ Running
    /\ prog[pc].op = "panic"
    /\ result' = <<"Panic", prog[pc].out.k>>
    /\ UNCHANGED <<sinkT, BO, vtk, prog, pc, sink, prior, earlier, dvars>>

\* usize subtraction below zero, built with overflow checks: panic.
OverflowPanic ==
    /\ Running
    /\ prog[pc].op = "ovf"
    /\ result' = <<"Panic", "overflow">>
    /\ UNCHANGED <<sinkT, BO, vtk, prog, pc, sink, prior, earlier, dvars>>

\* The same built without overflow checks: the value wraps and the write goes on.
OverflowWrap ==
    /\ Running
    /\ prog[pc].op = "ovf"
    /\ pc' = pc + 1
    /\ UNCHANGED <<sinkT, BO, vtk, prog, sink, result, prior, earlier, dvars>>

\* Ok(self) at the end of write_vtk_impl.
ReturnOk ==
    /\ pc = Len(prog) + 1
    /\ result = <<>>
    /\ result' = <<"Ok">>
    /\ UNCHANGED <<sinkT, BO, vtk, prog, pc, sink, prior, earlier, dvars>>

Next ==
    \/ write_vtk
    \/ write_vtk_le
    \/ write_vtk_be
    \/ write_fmt
    \/ FailIo
    \/ FailFmt
    \/ Panic
    \/ OverflowPanic
    \/ OverflowWrap
    \/ ReturnOk

Spec == Init /\ [][Next]_vars

\* ------------------------------------------------ a further call on the sink
\* The entry points take `&mut self` and hand it back in Ok(self): the caller
\* may call one again on the sink a returned write left.
Returned == result # <<>> /\ result[1] \in {"Ok", "Err"}

\* The documents of the calls that follow one another on one sink.
AgainDocs ==
    {v \in Docs : v.data.t = "Field" /\ Len(v.data.data_array) <= 1}

\* (mutant) the sink is cleared when a call begins
Again_clearing(bo, v) ==
    /\ Returned
    /\ Len(earlier) + 1 < MaxCalls
    /\ BO' = bo
    /\ vtk' = v
    /\ prog' = write_vtk_impl(sinkT, bo, v)
    /\ pc' = 1
    /\ result' = <<>>
    /\ sink' = <<>>
    /\ prior' = sink
    /\ earlier' = Append(earlier, [BO |-> BO, vtk |-> vtk, result |-> result])
    /\ UNCHANGED <<sinkT, dvars>>

\* self.write_vtk_impl::<BO>(vtk) on a sink that holds what earlier calls left.
Again(bo, v) ==
    /\ Returned
    /\ Len(earlier) + 1 < MaxCalls
    /\ BO' = bo
    /\ vtk' = v
    /\ prog' = write_vtk_impl(sinkT, bo, v)
    /\ pc' = 1
    /\ result' = <<>>
    /\ prior' = sink
    /\ earlier' = Append(earlier, [BO |-> BO, vtk |-> vtk, result |-> result])
    /\ UNCHANGED <<sinkT, sink, dvars>>

\* WriteVtk::write_vtk, write_vtk_le or write_vtk_be, called again.
write_vtk_again ==
    /\ vtk \in AgainDocs
    /\ \E v \in AgainDocs, bo \in {"LE", "BE"} : Again(bo, v)

\* The documents of the first call when calls follow one another.
AppendDocs == AgainDocs \cup {v \in Docs : v.data.t \in {"RectilinearGrid", "StructuredGrid"}}

\* WriteVtk::write_vtk, write_vtk_le or write_vtk_be on the fresh sink.
write_vtk_fresh == \E v \in AppendDocs, bo \in {"LE", "BE"} : Begin(bo, v)

NextAppend ==
    \/ write_vtk_fresh
    \/ write_vtk_again
    \/ write_fmt
    \/ FailIo
    \/ FailFmt
    \/ Panic
    \/ OverflowPanic
    \/ OverflowWrap
    \/ ReturnOk

SpecAppend == Init /\ [][NextAppend]_vars

\* ========================================================== decode layer
\* Results of a parser: IResult::Done(rest, out), IResult::Error, or
\* IResult::Incomplete.  out is a sequence: the bytes recognized, or the values.
Done(rest, out) == [t |-> "Done", rest |-> rest, out |-> out]

Error == [t |-> "Error", rest |-> <<>>, out |-> <<>>]

Incomplete == [t |-> "Incomplete", rest |-> <<>>, out |-> <<>>]

Take(s, k) == SubSeq(s, 1, k)

Drop(s, k) == SubSeq(s, k + 1, Len(s))

\* The part of input i that a parser returning rest has consumed.
Consumed(i, rest) == Take(i, Len(i) - Len(rest))

\* ASCII codes
Ch0 == 48
Ch9 == 57
ChPlus == 43
ChMinus == 45
ChDot == 46
ChLowerE == 101
ChUpperE == 69
ChSpace == 32
ChTab == 9
ChCr == 13
ChNl == 10

IsDigit(c) == c >= Ch0 /\ c <= Ch9

\* ---- the nom combinators the parsers are built from
RECURSIVE DigitRun(_)
DigitRun(i) == IF i # <<>> /\ IsDigit(Head(i)) THEN 1 + DigitRun(Tail(i)) ELSE 0

\* nom::digit: one or more decimal digits
digit(i) ==
    IF i = <<>> THEN Incomplete
    ELSE IF DigitRun(i) = 0 THEN Error
    ELSE Done(Drop(i, DigitRun(i)), Take(i, DigitRun(i)))

\* tag!(c) for a tag of one byte
tag(c, i) ==
    IF i = <<>> THEN Incomplete
    ELSE IF Head(i) = c THEN Done(Tail(i), <<c>>) ELSE Error

\* opt!(p), given p's result r on input i
opt(r, i) == IF r.t = "Error" THEN Done(i, <<>>) ELSE r

\* alt!(p | q), given the results of p and q on the same input
alt(r, q) == IF r.t = "Error" THEN q ELSE r

\* complete!(p)
complete(r) == IF r.t = "Incomplete" THEN Error ELSE r

\* tuple!/delimited!: p then q on what p left
Then(r, q(_)) == IF r.t = "Done" THEN q(r.rest) ELSE r

\* opt!(alt!(tag!("+") | tag!("-")))
sign(i) == opt(alt(tag(ChPlus, i), tag(ChMinus, i)), i)

\* alt_complete!(delimited!(digit, tag!("."), opt!(digit))
\*               | delimited!(opt!(digit), tag!("."), digit) | digit)
mantissa(i) ==
    LET m1 == Then(Then(digit(i), LAMBDA j : tag(ChDot, j)), LAMBDA j : opt(digit(j), j))
        m2 == Then(Then(opt(digit(i), i), LAMBDA j : tag(ChDot, j)), LAMBDA j : digit(j))
    IN alt(complete(m1), alt(complete(m2), complete(digit(i))))

\* opt!(complete!(tuple!(alt!(tag!("e") | tag!("E")), opt!(alt!(tag!("+") | tag!("-"))), digit)))
exponent(i) ==
    opt(complete(Then(Then(alt(tag(ChLowerE, i), tag(ChUpperE, i)), sign), digit)), i)

\* eat_separator!: the longest run of separator bytes, possibly empty
RECURSIVE SkipSep(_, _)
SkipSep(i, seps) == IF i # <<>> /\ Head(i) \in seps THEN SkipSep(Tail(i), seps) ELSE i

\* nom::sp, the separator of ws!
sp(i) == SkipSep(i, {ChSpace, ChTab, ChCr, ChNl})

\* named!(pub whitespace, eat_separator!(" \t"))
whitespace(i) == SkipSep(i, {ChSpace, ChTab})

\* ws!(p): separators, p, separators
ws(p(_), i) ==
    LET r == p(sp(i)) IN IF r.t = "Done" THEN Done(sp(r.rest), r.out) ELSE r

\* many_m_n!(input, m, n, p): p at most n times; fewer than m is a failure.
RECURSIVE ManyLoop(_, _, _, _, _)
ManyLoop(p(_), i, m, n, acc) ==
    IF Len(acc) = n THEN Done(i, acc)
    ELSE LET r == p(i) IN
         IF r.t = "Done" /\ Len(r.rest) # Len(i) THEN ManyLoop(p, r.rest, m, n, acc \o r.out)
         ELSE IF r.t = "Done" THEN (IF Len(acc) < m THEN Incomplete ELSE Done(i, acc))
         ELSE IF r.t = "Error" THEN (IF Len(acc) < m THEN Error ELSE Done(i, acc))
         ELSE Incomplete

many_m_n(p(_), i, m, n) == ManyLoop(p, i, m, n, <<>>)

\* ---- FromStr
RECURSIVE Decimal(_)
Decimal(ds) == IF ds = <<>> THEN 0 ELSE 10 * Decimal(Take(ds, Len(ds) - 1)) + (Last(ds) - Ch0)

MinOf(T) ==
    CASE T = "i8" -> -128 [] T = "i16" -> -32768 [] T = "i32" -> -2147483647 - 1 [] OTHER -> 0

MaxOf(T) ==
    CASE T = "u8" -> 255 [] T = "i8" -> 127 [] T = "u16" -> 65535 [] T = "i16" -> 32767
      [] T = "i32" -> 2147483647

\* <integer type>::from_str on an optional sign and digits: the value, or an
\* error when it does not fit the type (or is a negative value of an
\* unsigned type).
int_from_str(T, tok) ==
    LET neg == tok[1] = ChMinus
        ds == IF tok[1] \in {ChPlus, ChMinus} THEN Tail(tok) ELSE tok
        v == IF neg THEN -Decimal(ds) ELSE Decimal(ds)
    IN IF v < MinOf(T) \/ v > MaxOf(T) \/ (neg /\ T \in {"u8", "u16"}) THEN <<>> ELSE <<v>>

\* A real as the decimal m * 10^e, m without trailing zeros (0 is <<0, 0>>).
RECURSIVE Normal(_, _)
Normal(m, e) ==
    IF m = 0 THEN <<0, 0>> ELSE IF m % 10 = 0 THEN Normal(m \div 10, e + 1) ELSE <<m, e>>

\* <f32|f64>::from_str on a token of the real grammar, as an exact decimal.
float_from_str(tok) ==
    LET neg == tok[1] = ChMinus
        body == IF tok[1] \in {ChPlus, ChMinus} THEN Tail(tok) ELSE tok
        ip == Take(body, DigitRun(body))
        afterInt == Drop(body, DigitRun(body))
        hasDot == afterInt # <<>> /\ afterInt[1] = ChDot
        fp == IF hasDot THEN Take(Tail(afterInt), DigitRun(Tail(afterInt))) ELSE <<>>
        ex == Drop(body, Len(ip) + (IF hasDot THEN 1 ELSE 0) + Len(fp))
        exDigits == IF ex = <<>> THEN <<>>
                    ELSE IF ex[2] \in {ChPlus, ChMinus} THEN Drop(ex, 2) ELSE Tail(ex)
        exVal == IF ex # <<>> /\ ex[2] = ChMinus THEN -Decimal(exDigits) ELSE Decimal(exDigits)
        m == Decimal(ip \o fp)
    IN Normal(IF neg THEN -m ELSE m, exVal - Len(fp))

\* ---- the parsers of basic.rs
\* impl_real_parser!(real([u8]))
real(i) ==
    LET r == Then(Then(sign(i), mantissa), exponent)
    IN IF r.t = "Done" THEN Done(r.rest, <<float_from_str(Consumed(i, r.rest))>>) ELSE r

\* pub fn unsigned
unsigned(T, i) ==
    LET r == digit(i)
    IN IF r.t # "Done" THEN r
       ELSE IF int_from_str(T, r.out) = <<>> THEN Error ELSE Done(r.rest, int_from_str(T, r.out))

\* pub fn integer
integer(T, i) ==
    LET r == Then(sign(i), digit)
    IN IF r.t # "Done" THEN r
       ELSE IF int_from_str(T, Consumed(i, r.rest)) = <<>> THEN Error
       ELSE Done(r.rest, int_from_str(T, Consumed(i, r.rest)))

\* impl_from_ascii!
from_ascii(T, i) ==
    IF T \in {"f32", "f64"} THEN real(i)
    ELSE IF T \in {"u8", "u16", "u32", "u64"} THEN unsigned(T, i)
    ELSE integer(T, i)

\* (mutant) the cast is a saturating numeric conversion
as_i8_saturating(b) == IF b >= 128 THEN 127 ELSE b

\* `byte as i8` (and the *const u8 -> *const i8 view): the byte reinterpreted
\* in two's complement.
as_i8(b) == IF b >= 128 THEN b - 256 ELSE b

\* (mutant) the byte order parameter is ignored: always little-endian
read_fn_le_only(T, bo, b) ==
    IF size_of(T) = 2
    THEN LET u == b[1] + 256 * b[2]
         IN IF T = "i16" /\ u >= 32768 THEN u - 65536 ELSE u
    ELSE b

\* ByteOrder::read_{u16,i16,..}: a 16-bit value as a number, a wider one as
\* its radix-256 digits, least significant first.
read_fn(T, bo, b) ==
    IF size_of(T) = 2
    THEN LET u == IF bo = "LE" THEN b[1] + 256 * b[2] ELSE 256 * b[1] + b[2]
         IN IF T = "i16" /\ u >= 32768 THEN u - 65536 ELSE u
    ELSE IF bo = "LE" THEN b ELSE Reverse(b)

\* (mutant) the length check is off by one: exactly sizeof(T) bytes are refused
from_binary_strict(T, bo, input) ==
    IF Len(input) <= size_of(T) THEN Incomplete
    ELSE Done(Drop(input, size_of(T)),
              IF size_of(T) = 1
              THEN <<IF T = "i8" THEN as_i8(input[1]) ELSE input[1]>>
              ELSE <<read_fn(T, bo, Take(input, size_of(T)))>>)

\* impl_from_binary!: both arms
from_binary(T, bo, input) ==
    IF size_of(T) = 1
    THEN IF Len(input) < 1 THEN Incomplete
         ELSE Done(Drop(input, 1),
                   <<IF T = "i8" THEN as_i8(input[1]) ELSE input[1]>>)
    ELSE IF Len(input) < size_of(T) THEN Incomplete
         ELSE Done(Drop(input, size_of(T)), <<read_fn(T, bo, Take(input, size_of(T)))>>)

\* (mutant) the lower bound of many_m_n! is 0: a short input yields fewer values
parse_data_vec_lenient(T, bo, input, n, ft) ==
    IF ft = "ASCII" THEN many_m_n(LAMBDA i : ws(LAMBDA j : from_ascii(T, j), i), input, 0, n)
    ELSE many_m_n(LAMBDA i : from_binary(T, bo, i), input, 0, n)

\* pub fn parse_data_vec
parse_data_vec(T, bo, input, n, ft) ==
    IF ft = "ASCII" THEN many_m_n(LAMBDA i : ws(LAMBDA j : from_ascii(T, j), i), input, n, n)
    ELSE many_m_n(LAMBDA i : from_binary(T, bo, i), input, n, n)

\* pub fn parse_data_buffer: the vector wrapped with its element type
parse_data_buffer(T, bo, input, n, ft) ==
    LET r == parse_data_vec(T, bo, input, n, ft)
    IN IF r.t = "Done" THEN Done(r.rest, Buf(T, r.out)) ELSE r

\* pub fn parse_data_vec_u8
parse_data_vec_u8(input, n, ft) ==
    IF ft = "ASCII" THEN many_m_n(LAMBDA i : ws(LAMBDA j : from_ascii("u8", j), i), input, n, n)
    ELSE IF Len(input) < n THEN Incomplete
    ELSE Done(Drop(input, n), Take(input, n))

\* pub fn parse_data_vec_i8
parse_data_vec_i8(input, n, ft) ==
    IF ft = "ASCII" THEN many_m_n(LAMBDA i : ws(LAMBDA j : from_ascii("i8", j), i), input, n, n)
    ELSE IF Len(input) < n THEN Incomplete
    ELSE Done(Drop(input, n),
              [k \in 1..n |-> as_i8(input[k])])

\* (mutant) one byte more than the whole bytes of n bits, always
parse_data_bit_vec_extra(input, n, ft) ==
    IF ft = "ASCII" THEN many_m_n(LAMBDA i : ws(LAMBDA j : from_ascii("u8", j), i), input, n, n)
    ELSE IF Len(input) < n \div 8 + 1 THEN Incomplete
    ELSE Done(Drop(input, n \div 8 + 1), Take(input, n \div 8 + 1))

\* pub fn parse_data_bit_vec
parse_data_bit_vec(input, n, ft) ==
    IF ft = "ASCII" THEN many_m_n(LAMBDA i : ws(LAMBDA j : from_ascii("u8", j), i), input, n, n)
    ELSE LET nbytes == n \div 8 + (IF n % 8 = 0 THEN 0 ELSE 1)
         IN IF Len(input) < nbytes THEN Incomplete
            ELSE Done(Drop(input, nbytes), Take(input, nbytes))

\* ------------------------------------------------- reading the sink back
\* The chunks a run of the steps appends when no step fails.
Emitted(steps) ==
    LET emits == SelectSeq(steps, LAMBDA st : st.op \in {"fmt", "elem"})
    IN [i \in 1..Len(emits) |-> emits[i].out]

\* What the write in progress appends to the sink when it succeeds.
FullOutput == Emitted(write_vtk_impl(sinkT, BO, vtk))

PayloadParts == {"elem", "tok", "sp", "buf"}

\* A chunk as a section event: a keyword, or "payload" for a part of a buffer
\* (its closing newline included).
Label(c) ==
    IF c.k \in PayloadParts \/ (c.k = "nl" /\ c.sec # "") THEN "payload" ELSE c.k

\* The section events of a sink: separating newlines and the size part of a
\* two-part line dropped, the parts of one payload merged.
RECURSIVE Merge(_)
Merge(ls) ==
    IF Len(ls) < 2 THEN ls
    ELSE IF ls[1] = "payload" /\ ls[2] = "payload" THEN Merge(Tail(ls))
    ELSE <<ls[1]>> \o Merge(Tail(ls))

Events(snk) ==
    LET kept == SelectSeq(snk, LAMBDA c : c.k \notin {"nl", "sizes"} \/ Label(c) = "payload")
    IN Merge([i \in 1..Len(kept) |-> Label(kept[i])])

\* Index of the first chunk with keyword kw, or Len + 1.
RECURSIVE IndexOf(_, _, _)
IndexOf(snk, kw, i) ==
    IF i > Len(snk) THEN i ELSE IF snk[i].k = kw THEN i ELSE IndexOf(snk, kw, i + 1)

BeforeAttribs(snk) == SubSeq(snk, 1, IndexOf(snk, "POINT_DATA", 1) - 1)

AttribBlock(snk) == SubSeq(snk, IndexOf(snk, "POINT_DATA", 1), Len(snk))

Keywords(snk, kws) ==
    LET kept == SelectSeq(snk, LAMBDA c : c.k \in kws)
    IN [i \in 1..Len(kept) |-> kept[i].k]

Ok == result = <<"Ok">>

Failed == result # <<>> /\ result[1] = "Err"

HasAttribs == vtk.data.t \in {"PolyData", "UnstructuredGrid", "ImageData",
                              "StructuredGrid", "RectilinearGrid"}

\* ------------------------------------------------- the decode operations
\* The bytes a chunk puts into a Vec<u8>: an element's bytes, or the newline
\* of writeln!.
ChunkBytes(c) == IF c.k = "elem" THEN c.b ELSE <<ChNl>>

\* The content of a Vec<u8> after write_buf / write_u32_vec on an empty one.
VecBytes(steps) == Concat([i \in 1..Len(steps) |-> ChunkBytes(steps[i].out)])

ByteAlphabet == {1, 200}

\* Every value of a byte; the short inputs below cover all of them.
AllBytes == 0..255

ShortInputs == {<<b>> : b \in AllBytes} \cup {<<b, 255 - b>> : b \in AllBytes}

CharAlphabet == {49, 50, ChMinus, ChDot, ChLowerE, ChSpace, 120}

BinaryTypes == ScalarTypes

AsciiTypes == {"u8", "i8", "i32", "f32"}

\* Values written in the round trips: the extremes of the narrow types, and
\* values of the wide types within the range of the checker's integers (a
\* float by its bit pattern).
ValuesOf(T) ==
    CASE T = "u8" -> {0, 10, 255}
      [] T = "i8" -> {-128, -1, 127}
      [] T = "u16" -> {1, 258, 65535}
      [] T = "i16" -> {-32768, -2, 258}
      [] T \in {"u32", "u64"} -> {0, 16909060, 2147483647}
      [] T \in {"i32", "i64"} -> {-2147483647, -2, 16909060}
      [] T \in {"f32", "f64"} -> {0, 1042284544}

Sources ==
    {[f |-> "write_buf", bo |-> bo, buf |-> Buf(T, v), done |-> FALSE] :
        bo \in {"LE", "BE"},
        T \in {"u8"}, v \in {<<>>}}
    \cup UNION {{[f |-> "write_buf", bo |-> bo, buf |-> Buf(T, v), done |-> FALSE] :
                   bo \in {"LE", "BE"}, v \in SeqsUpTo(ValuesOf(T), MaxCount)} : T \in ScalarTypes}
    \cup {[f |-> "write_u32_vec", bo |-> bo, buf |-> Buf("u32", v), done |-> FALSE] :
            bo \in {"LE", "BE"}, v \in SeqsUpTo(ValuesOf("u32"), MaxCount)}

WriterIdle ==
    /\ sinkT = "Vec" /\ BO = "none" /\ vtk = NoDoc /\ prog = <<>>
    /\ pc = 0 /\ sink = <<>> /\ result = <<>>
    /\ prior = <<>> /\ earlier = <<>>

InitDecode ==
    /\ WriterIdle
    /\ dOp = <<>>
    /\ dOut = <<>>
    /\ \/ dFt = "Binary" /\ dSrc = <<>> /\ dIn \in SeqsUpTo(ByteAlphabet, MaxBytes)
       \/ dFt = "Binary" /\ dSrc = <<>> /\ dIn \in ShortInputs
       \/ dFt = "ASCII" /\ dSrc = <<>> /\ dIn \in SeqsUpTo(CharAlphabet, MaxChars)
       \/ dFt = "Binary" /\ dSrc \in Sources /\ dIn = <<>>

\* The binary sink writes the buffer: the input of the decode that follows.
VecWrite ==
    /\ dSrc # <<>>
    /\ ~dSrc.done
    /\ dIn' = VecBytes(IF dSrc.f = "write_buf"
                       THEN Vec_write_buf(dSrc.bo, dSrc.buf, "")
                       ELSE Vec_write_u32_vec(dSrc.bo, dSrc.buf.v, ""))
    /\ dSrc' = [dSrc EXCEPT !.done = TRUE]
    /\ UNCHANGED <<dFt, dOp, dOut, wvars>>

Ready == dOp = <<>> /\ (IF dSrc = <<>> THEN TRUE ELSE dSrc.done)

Op(f, T, bo, n) == [f |-> f, T |-> T, bo |-> bo, n |-> n]

Apply(op, out) ==
    /\ Ready
    /\ dOp' = op
    /\ dOut' = out
    /\ UNCHANGED <<dIn, dFt, dSrc, wvars>>

TypesOf(ft) == IF ft = "ASCII" THEN AsciiTypes ELSE BinaryTypes

OrdersOf(ft) == IF ft = "ASCII" THEN {"BE"} ELSE {"LE", "BE"}

do_from_binary ==
    /\ dFt = "Binary"
    /\ \E T \in BinaryTypes, bo \in {"LE", "BE"} :
         Apply(Op("from_binary", T, bo, 1), from_binary(T, bo, dIn))

do_unsigned ==
    /\ dFt = "ASCII"
    /\ \E T \in {"u8", "u16"} : Apply(Op("unsigned", T, "BE", 1), unsigned(T, dIn))

do_integer ==
    /\ dFt = "ASCII"
    /\ \E T \in {"i8", "i32"} : Apply(Op("integer", T, "BE", 1), integer(T, dIn))

do_real ==
    /\ dFt = "ASCII"
    /\ Apply(Op("real", "f32", "BE", 1), real(dIn))

do_parse_data_vec ==
    \E T \in TypesOf(dFt), bo \in OrdersOf(dFt), n \in 0..MaxCount :
        Apply(Op("parse_data_vec", T, bo, n), parse_data_vec(T, bo, dIn, n, dFt))

do_parse_data_buffer ==
    \E T \in {"u8", "f32"}, bo \in OrdersOf(dFt), n \in 0..MaxCount :
        Apply(Op("parse_data_buffer", T, bo, n), parse_data_buffer(T, bo, dIn, n, dFt))

do_parse_data_vec_u8 ==
    \E n \in 0..MaxCount : Apply(Op("parse_data_vec_u8", "u8", "BE", n), parse_data_vec_u8(dIn, n, dFt))

do_parse_data_vec_i8 ==
    \E n \in 0..MaxCount : Apply(Op("parse_data_vec_i8", "i8", "BE", n), parse_data_vec_i8(dIn, n, dFt))

do_parse_data_bit_vec ==
    \E n \in 0..MaxBits :
        Apply(Op("parse_data_bit_vec", "u8", "BE", n), parse_data_bit_vec(dIn, n, dFt))

NextDecode ==
    \/ VecWrite
    \/ do_from_binary
    \/ do_unsigned
    \/ do_integer
    \/ do_real
    \/ do_parse_data_vec
    \/ do_parse_data_buffer
    \/ do_parse_data_vec_u8
    \/ do_parse_data_vec_i8
    \/ do_parse_data_bit_vec

SpecDecode == InitDecode /\ [][NextDecode]_vars

\* ------------------------------------------------------------------ claims
\* C1: every write ends in Ok(sink) or Err(tagged error); no panic, failed
\* assertion, division by zero or arithmetic underflow is reachable.
C1_OkOrErrOnly == result = <<>> \/ result[1] \in {"Ok", "Err"}

\* The step whose failure ended the write: the first one not in the sink.
FailingStep ==
    LET emits == SelectSeq(write_vtk_impl(sinkT, BO, vtk), LAMBDA st : st.op \in {"fmt", "elem"})
    IN emits[Len(sink) + 1]

InnerErrors ==
    IF sinkT = "Vec" THEN {FromIoError(kind) : kind \in IOErrorKinds} ELSE {FromFmtError}

AttribKeywords(a) ==
    CASE a.t = "Scalars" -> <<"SCALARS", "LOOKUP_TABLE">>
      [] a.t = "ColorScalars" -> <<"COLOR_SCALARS">>
      [] a.t = "LookupTable" -> <<"LOOKUP_TABLE">>
      [] a.t = "Vectors" -> <<"VECTORS">>
      [] a.t = "Normals" -> <<"NORMALS">>
      [] a.t = "TextureCoordinates" -> <<"TEXTURE_COORDINATES">>
      [] a.t = "Tensors" -> <<"TENSORS">>
      [] a.t = "Field" -> <<"FIELD">> \o [j \in 1..Len(a.data_array) |-> "array"]

ListKeywords(list) == Concat([i \in 1..Len(list) |-> AttribKeywords(list[i].attrib)])

AttribKws ==
    {"POINT_DATA", "CELL_DATA", "SCALARS", "LOOKUP_TABLE", "COLOR_SCALARS", "VECTORS",
     "NORMALS", "TEXTURE_COORDINATES", "TENSORS", "FIELD", "array"}

\* C3: a successful write of a dataset with attributes emits POINT_DATA, the
\* point attributes in list order, CELL_DATA, the cell attributes in list
\* order; each header once, also when a list is empty.
C3_AttribBlockOrder ==
    (Ok /\ HasAttribs) =>
        Keywords(AttribBlock(sink), AttribKws)
          = <<"POINT_DATA">> \o ListKeywords(vtk.data.data.point)
            \o <<"CELL_DATA">> \o ListKeywords(vtk.data.data.cell)

\* C3 witness: a successful write with no cell attribute and two point attributes.
C3_Witness ==
    /\ Ok /\ HasAttribs
    /\ vtk.data.data.cell = <<>>
    /\ Len(vtk.data.data.point) = 2
    /\ vtk.data.data.point[1].attrib.t # vtk.data.data.point[2].attrib.t

FileTypeKw == IF sinkT = "Vec" THEN "BINARY" ELSE "ASCII"

HeaderEvents == <<"# vtk DataFile Version", "title", FileTypeKw>>

ExpectedEvents(d) ==
    CASE d.t = "Field" ->
           {HeaderEvents \o <<"FIELD">>
            \o Concat([j \in 1..Len(d.data_array) |-> <<"array", "payload">>])}
      [] d.t = "UnstructuredGrid" ->
           {HeaderEvents \o <<"DATASET", "POINTS", "payload", "CELLS", "payload",
                              "CELL_TYPES", "payload">>}
      [] d.t = "ImageData" ->
           {HeaderEvents \o <<"DATASET", "DIMENSIONS", "ORIGIN", kw>> :
              kw \in {"ASPECT_RATIO", "SPACING"}}
      [] d.t = "StructuredGrid" ->
           {HeaderEvents \o <<"DATASET", "DIMENSIONS", "POINTS", "payload">>}
      [] d.t = "RectilinearGrid" ->
           {HeaderEvents \o <<"DATASET", "DIMENSIONS", "X_COORDINATES", "payload",
                              "Y_COORDINATES", "payload", "Z_COORDINATES", "payload">>}

\* C4: in a successful write the keyword lines and payloads appear in the fixed
\* order of the dataset kind, each keyword line before its own payload, and
\* POINT_DATA then CELL_DATA after the dataset's own sections.
C4_KeywordOrder ==
    (Ok /\ vtk.data.t # "PolyData") =>
        /\ Events(BeforeAttribs(sink)) \in ExpectedEvents(vtk.data)
        /\ Keywords(AttribBlock(sink), {"POINT_DATA", "CELL_DATA"})
             = IF HasAttribs THEN <<"POINT_DATA", "CELL_DATA">> ELSE <<>>

\* C4 witness: a successful binary write of an unstructured grid with cells.
C4_Witness ==
    Ok /\ vtk.data.t = "UnstructuredGrid" /\ sinkT = "Vec" /\ vtk.data.cell_types # <<>>

TopoTags == {"VERTICES", "LINES", "POLYGONS", "TRIANGLE_STRIPS"}

TagOfKind == [k \in TopoKinds |->
                CASE k = "Vertices" -> "VERTICES" [] k = "Lines" -> "LINES"
                  [] k = "Polygons" -> "POLYGONS" [] k = "TriangleStrips" -> "TRIANGLE_STRIPS"]

Rank == [t \in TopoTags |->
           CASE t = "VERTICES" -> 1 [] t = "LINES" -> 2
             [] t = "POLYGONS" -> 3 [] t = "TRIANGLE_STRIPS" -> 4]

\* C5 (as amended): the topology sections of a PolyData appear in the order of
\* the groups in the caller's sequence, one section per group; a kind absent
\* from the sequence produces no section.
C5_CallerOrder ==
    (Ok /\ vtk.data.t = "PolyData") =>
        Keywords(sink, TopoTags) = [i \in 1..Len(vtk.data.topo) |-> TagOfKind[vtk.data.topo[i].kind]]

\* C5 witness: a PolyData whose groups are not in the canonical order was written.
C5_Witness ==
    /\ Ok /\ vtk.data.t = "PolyData"
    /\ Len(vtk.data.topo) = 2
    /\ Rank[TagOfKind[vtk.data.topo[1].kind]] > Rank[TagOfKind[vtk.data.topo[2].kind]]

\* C5 (as claimed): whatever the caller's order, the sections appear in the
\* order VERTICES, LINES, POLYGONS, TRIANGLE_STRIPS, absent kinds omitted.
C5_CanonicalOrder ==
    (Ok /\ vtk.data.t = "PolyData") =>
        LET tags == Keywords(sink, TopoTags) IN
        /\ \A i \in 1..Len(tags) - 1 : Rank[tags[i]] <= Rank[tags[i + 1]]
        /\ {tags[i] : i \in 1..Len(tags)}
             = {TagOfKind[vtk.data.topo[i].kind] : i \in 1..Len(vtk.data.topo)}

\* C6: the error of a failed write names the step that failed: the version
\* line yields Header(Version), the title line Header(Title), the file-type
\* line Header(FileType).
C6_TagNamesStep ==
    Failed =>
        /\ prog[pc].out.k = "# vtk DataFile Version" => Tail(result) = <<"Header", "Version">>
        /\ prog[pc].out.k = "title" => Tail(result) = <<"Header", "Title">>
        /\ prog[pc].out.k \in {"BINARY", "ASCII"} => Tail(result) = <<"Header", "FileType">>

\* ---------------------------------------------------- claims on the decoder
Applied(f) == dOp # <<>> /\ dOp.f = f

IntegerTypes == {"u8", "i8", "u16", "i16", "u32", "i32", "u64", "i64"}

\* A value as a decode result holds it: a number for the 8- and 16-bit types,
\* the radix-256 digits of the bit pattern for the wider ones.
ValueRepr(T, v) == IF size_of(T) <= 2 THEN v ELSE ToLimbs(v, T)

RoundTripDone ==
    /\ dSrc # <<>>
    /\ dSrc.done
    /\ Applied("parse_data_vec")
    /\ dOp.T = dSrc.buf.ty
    /\ dOp.bo = dSrc.bo
    /\ dOp.n = Len(dSrc.buf.v)

\* C7: decoding with parse_data_vec::<T, BO>(bytes, n, Binary) the bytes the
\* binary sink's write_buf::<BO> (or write_u32_vec::<BO>) emits for n values of
\* an integer type T returns exactly those values, and leaves the one newline.
C7_BinaryRoundTrip ==
    (RoundTripDone /\ dOp.T \in IntegerTypes) =>
        dOut = Done(<<ChNl>>, [i \in 1..dOp.n |-> ValueRepr(dOp.T, dSrc.buf.v[i])])

\* C7 witness: two 16-bit values written big-endian were decoded.
C7_Witness ==
    /\ RoundTripDone
    /\ dOp.T = "i16" /\ dOp.bo = "BE" /\ dOp.n = 2
    /\ dSrc.buf.v[1] # dSrc.buf.v[2]
    /\ dOut.t = "Done"

\* The fixed-width decoding of the bytes b of one value.
Decoded(T, bo, b) ==
    LET w == size_of(T)
        msb == IF bo = "BE" THEN b[1] ELSE b[w]
    IN CASE w = 1 -> IF T = "i8" /\ b[1] >= 128 THEN b[1] - 256 ELSE b[1]
         [] w = 2 -> (IF bo = "BE" THEN b[2] ELSE b[1]) + 256 * msb
                     - (IF T = "i16" /\ msb >= 128 THEN 65536 ELSE 0)
         [] OTHER -> [k \in 1..w |-> IF bo = "LE" THEN b[k] ELSE b[w + 1 - k]]

\* C8: from_binary on L bytes is Done iff L >= sizeof(T); then exactly
\* sizeof(T) bytes are consumed and the value is their decoding at the byte
\* order; with fewer bytes the result is Incomplete, never Error.
C8_FromBinary ==
    Applied("from_binary") =>
        LET w == size_of(dOp.T) IN
        IF Len(dIn) >= w
        THEN dOut = Done(Drop(dIn, w), <<Decoded(dOp.T, dOp.bo, Take(dIn, w))>>)
        ELSE dOut.t = "Incomplete"

\* C8 witness: a 4-byte value was decoded big-endian from a longer input whose
\* bytes differ.
C8_Witness ==
    /\ Applied("from_binary")
    /\ dOp.T = "i32" /\ dOp.bo = "BE"
    /\ Len(dIn) > 4 /\ dIn[1] # dIn[4]
    /\ dOut.t = "Done"

IsSep(c) == c \in {ChSpace, ChTab, ChCr, ChNl}

RECURSIVE Strip(_)
Strip(t) ==
    IF t = <<>> THEN t
    ELSE IF IsSep(Head(t)) THEN Strip(Tail(t))
    ELSE IF IsSep(Last(t)) THEN Strip(Take(t, Len(t) - 1))
    ELSE t

AllDigits(t) == t # <<>> /\ \A k \in 1..Len(t) : IsDigit(t[k])

Unsigned(t) == IF t # <<>> /\ t[1] \in {ChPlus, ChMinus} THEN Tail(t) ELSE t

\* The grammar of an exponent: (e|E)(+|-)?digits
IsExponent(t) == t # <<>> /\ t[1] \in {ChLowerE, ChUpperE} /\ AllDigits(Unsigned(Tail(t)))

\* The grammar of a real: sign? (digits '.' digits? | digits? '.' digits | digits) exponent?
IsRealToken(t) ==
    LET body == Unsigned(t)
        ip == DigitRun(body)
        dot == IF Len(body) > ip /\ body[ip + 1] = ChDot THEN 1 ELSE 0
        fp == DigitRun(Drop(body, ip + dot))
        ex == Drop(body, ip + dot + fp)
    IN /\ (ip > 0 \/ (dot = 1 /\ fp > 0))
       /\ (ex = <<>> \/ IsExponent(ex))

\* t is a token of the ASCII grammar of T and v is its value.
IsToken(T, t, v) ==
    IF T \in {"f32", "f64"} THEN IsRealToken(t) /\ v = float_from_str(t)
    ELSE /\ AllDigits(IF T \in {"u8", "u16", "u32", "u64"} THEN t ELSE Unsigned(t))
         /\ int_from_str(T, t) = <<v>>

\* text is n tokens with values vals, each with optional separators around it.
RECURSIVE IsTokens(_, _, _)
IsTokens(T, text, vals) ==
    IF vals = <<>> THEN text = <<>>
    ELSE \E k \in 1..Len(text) :
            /\ IsToken(T, Strip(Take(text, k)), vals[1])
            /\ IsTokens(T, Drop(text, k), Tail(vals))

\* The maximal runs of non-separator bytes of a text.
RECURSIVE Fields(_)
Fields(text) ==
    LET t == sp(text)
        k == CHOOSE j \in 0..Len(t) : /\ \A q \in 1..j : ~IsSep(t[q])
                                      /\ (j = Len(t) \/ IsSep(t[j + 1]))
    IN IF t = <<>> THEN <<>> ELSE <<Take(t, k)>> \o Fields(Drop(t, k))

BulkApplied == Applied("parse_data_vec") \/ Applied("parse_data_buffer")

\* The values a bulk decode returned.
BulkValues == IF dOp.f = "parse_data_buffer" THEN dOut.out.v ELSE dOut.out

BulkCount ==
    /\ dOut.t = "Done" => Len(BulkValues) = dOp.n
    /\ dOp.n = 0 => dOut.t = "Done" /\ dOut.rest = dIn
    /\ (dFt = "ASCII" /\ dOp.n > 0 /\ sp(dIn) = <<>>) => dOut.t # "Done"
    /\ (dOp.f = "parse_data_buffer" /\ dOut.t = "Done") => dOut.out.ty = dOp.T

BulkBinary ==
    LET w == size_of(dOp.T) IN
    /\ Len(dIn) < dOp.n * w => dOut.t # "Done"
    /\ dOut.t = "Done" =>
         /\ dOut.rest = Drop(dIn, dOp.n * w)
         /\ \A k \in 1..dOp.n :
              BulkValues[k] = Decoded(dOp.T, dOp.bo, SubSeq(dIn, (k - 1) * w + 1, k * w))

\* C9 (as amended): a bulk decode that returns Done returns exactly n values in
\* input order; in Binary mode it consumed exactly n * sizeof(T) bytes; in
\* ASCII mode it consumed exactly n tokens of the grammar, each with optional
\* whitespace/newlines around it (tokens the grammar can split need no
\* separator between them); n = 0 is Done with nothing consumed; with fewer
\* than n values available the result is not Done.
C9_BulkDecode ==
    BulkApplied =>
        /\ BulkCount
        /\ dFt = "Binary" => BulkBinary
        /\ (dFt = "ASCII" /\ dOut.t = "Done") =>
             IsTokens(dOp.T, Consumed(dIn, dOut.rest), BulkValues)

\* C9 witness: two values were decoded from text with no separator in it.
C9_Witness ==
    /\ Applied("parse_data_vec")
    /\ dFt = "ASCII" /\ dOp.n = 2 /\ dOut.t = "Done"
    /\ \A k \in 1..Len(dIn) : ~IsSep(dIn[k])

\* C9 (as claimed): in ASCII mode the n tokens consumed are whitespace/newline
\* separated.
C9_SeparatedTokens ==
    BulkApplied =>
        /\ BulkCount
        /\ dFt = "Binary" => BulkBinary
        /\ (dFt = "ASCII" /\ dOut.t = "Done") =>
             LET fs == Fields(Consumed(dIn, dOut.rest)) IN
             /\ Len(fs) = dOp.n
             /\ \A k \in 1..Len(fs) : IsToken(dOp.T, fs[k], BulkValues[k])

\* The decode operation op applied to another input.
Run(op, input, ft) ==
    CASE op.f = "from_binary" -> from_binary(op.T, op.bo, input)
      [] op.f = "unsigned" -> unsigned(op.T, input)
      [] op.f = "integer" -> integer(op.T, input)
      [] op.f = "real" -> real(input)
      [] op.f = "parse_data_vec" -> parse_data_vec(op.T, op.bo, input, op.n, ft)
      [] op.f = "parse_data_buffer" -> parse_data_buffer(op.T, op.bo, input, op.n, ft)
      [] op.f = "parse_data_vec_u8" -> parse_data_vec_u8(input, op.n, ft)
      [] op.f = "parse_data_vec_i8" -> parse_data_vec_i8(input, op.n, ft)
      [] op.f = "parse_data_bit_vec" -> parse_data_bit_vec(input, op.n, ft)

\* k further tokens, each after a blank.
Tokens(k) == Concat([i \in 1..k |-> <<ChSpace, 49>>])

\* What a caller could supply after the input: in text, up to two characters
\* and then further tokens; in binary, as many bytes as the widest bulk decode
\* needs.
Continuations ==
    IF dFt = "ASCII"
    THEN {h \o Tokens(k) : h \in SeqsUpTo(CharAlphabet, 2), k \in 0..MaxBits} \ {<<>>}
    ELSE {[i \in 1..k |-> 1] : k \in 1..(8 * MaxCount)}

CanSucceed == \E ext \in Continuations : Run(dOp, dIn \o ext, dFt).t = "Done"

\* C10: for every decode operation, (a) a failure on an input that some
\* continuation completes to a success is Incomplete, never Error (a lone
\* sign, too few bytes); (b) a failure on an input that no continuation can
\* complete is Error, never Incomplete; in Binary mode Error is never returned.
C10_NeverConflated ==
    dOp # <<>> =>
        /\ dFt = "Binary" => dOut.t # "Error"
        /\ dOut.t = "Error" => ~CanSucceed
        /\ dOut.t = "Incomplete" => CanSucceed

\* The signed value of a byte's bit pattern.
TwosComplement(b) == IF b < 128 THEN b ELSE b - 256

\* C11: an i8 read from raw bytes is the two's-complement reinterpretation of
\* the byte: i8::from_binary on a non-empty input, and parse_data_vec_i8 in
\* Binary mode on at least n bytes, return b for b < 128 and b - 256 for
\* b >= 128, and never fail because of a byte's value.
C11_I8Reinterpret ==
    /\ (Applied("from_binary") /\ dOp.T = "i8" /\ dIn # <<>>) =>
         dOut = Done(Tail(dIn), <<TwosComplement(dIn[1])>>)
    /\ (Applied("parse_data_vec_i8") /\ dFt = "Binary" /\ Len(dIn) >= dOp.n) =>
         dOut = Done(Drop(dIn, dOp.n), [k \in 1..dOp.n |-> TwosComplement(dIn[k])])

\* C11 witness: the bulk path decoded the byte 0xFF as -1, next to a byte
\* below 128.
C11_Witness ==
    /\ Applied("parse_data_vec_i8")
    /\ dFt = "Binary" /\ dOp.n = 2
    /\ dIn = <<255, 0>>
    /\ dOut.t = "Done" /\ dOut.out = <<-1, 0>>

\* The Scalars attributes of the document being written, point list first.
ScalarsWritten ==
    IF HasAttribs
    THEN SelectSeq(vtk.data.data.point \o vtk.data.data.cell, LAMBDA a : a.attrib.t = "Scalars")
    ELSE <<>>

\* The positions of the SCALARS header lines in the sink.
RECURSIVE Positions(_, _, _)
Positions(snk, kw, i) ==
    IF i > Len(snk) THEN <<>>
    ELSE (IF snk[i].k = kw THEN <<i>> ELSE <<>>) \o Positions(snk, kw, i + 1)

\* C12: for every Scalars attribute written, the SCALARS header line is
\* followed immediately by exactly one LOOKUP_TABLE line and only then by the
\* data buffer; the name on that line is the supplied lookup-table name, or
\* "default" when none was supplied.
C12_LookupTableLine ==
    LET at == Positions(sink, "SCALARS", 1) IN
    /\ Len(at) <= Len(ScalarsWritten)
    /\ Ok => Len(at) = Len(ScalarsWritten)
    /\ \A j \in 1..Len(at) :
         LET i == at[j]
             a == ScalarsWritten[j]
         IN /\ sink[i].s[1] = a.name
            /\ i + 1 <= Len(sink) =>
                 /\ sink[i + 1].k = "LOOKUP_TABLE"
                 /\ sink[i + 1].n = <<>>
                 /\ sink[i + 1].s = <<IF a.attrib.lookup_table = <<>> THEN "default"
                                      ELSE a.attrib.lookup_table[1]>>
            /\ i + 2 <= Len(sink) =>
                 /\ Label(sink[i + 2]) = "payload"
                 /\ sink[i + 2].sec = "Attribute"
                 /\ sink[i + 2].k = "buf" => sink[i + 2].b = a.attrib.data.v
            /\ Ok => i + 2 <= Len(sink)

\* C12 witness: a write ended Ok with a Scalars attribute that names its
\* lookup table.
C12_Witness ==
    /\ Ok
    /\ \E i \in 1..Len(sink) - 1 :
         sink[i].k = "SCALARS" /\ sink[i + 1].k = "LOOKUP_TABLE" /\ sink[i + 1].s = <<"lut">>

SpacingKeywords == {"ASPECT_RATIO", "SPACING"}

\* What the write in progress would have appended for the same document at
\* another version.
OutputAtVersion(ver) == Emitted(write_vtk_impl(sinkT, BO, [vtk EXCEPT !.version = ver]))

\* Two outputs differ only in the version line and in the spacing keyword.
SameButVersion(a, b) ==
    /\ Len(a) = Len(b)
    /\ \A i \in 1..Len(a) :
         a[i] # b[i] =>
            \/ a[i].k = "# vtk DataFile Version" /\ b[i].k = a[i].k
            \/ /\ a[i].k \in SpacingKeywords /\ b[i].k \in SpacingKeywords
               /\ [a[i] EXCEPT !.k = b[i].k] = b[i]

\* C13: a written ImageData carries ASPECT_RATIO when version.major < 2 and
\* SPACING when version.major >= 2, followed by the three spacing values; the
\* same document at another version gives an output that differs only in the
\* version line and in this keyword.
C13_SpacingKeyword ==
    (Ok /\ vtk.data.t = "ImageData") =>
        LET i == IndexOf(sink, "ORIGIN", 1) + 1 IN
        /\ i + 1 <= Len(sink)
        /\ Len(Keywords(sink, SpacingKeywords)) = 1
        /\ sink[i].k = (IF vtk.version.major >= 2 THEN "SPACING" ELSE "ASPECT_RATIO")
        /\ sink[i + 1].k = "sizes" /\ sink[i + 1].n = vtk.data.spacing
        /\ \A ver \in Versions : SameButVersion(sink, OutputAtVersion(ver))

\* C13 witness: an ImageData was written at a version before 2.
C13_Witness ==
    /\ Ok /\ vtk.data.t = "ImageData" /\ vtk.version.major = 1
    /\ Keywords(sink, SpacingKeywords) = <<"ASPECT_RATIO">>

Panicked == result # <<>> /\ result[1] = "Panic"

\* The count on the (first) line with keyword kw in the sink.
CountOn(kw) == sink[IndexOf(sink, kw, 1)].n[1]

Written(kw) == IndexOf(sink, kw, 1) <= Len(sink)

\* C14: for every RectilinearGrid with coordinate buffers of lengths nx, ny,
\* nz >= 0 the write emits POINT_DATA nx * ny * nz and CELL_DATA
\* (nx - 1) * (ny - 1) * (nz - 1), computed without underflow or wrap-around
\* (no panic, no count outside the mathematical value), and each
\* X/Y/Z_COORDINATES header carries the length of its own buffer.
C14_RectilinearCounts ==
    vtk.data.t = "RectilinearGrid" =>
        LET nx == Len(vtk.data.x_coords.v)
            ny == Len(vtk.data.y_coords.v)
            nz == Len(vtk.data.z_coords.v)
        IN /\ ~Panicked
           /\ Written("X_COORDINATES") => CountOn("X_COORDINATES") = nx
           /\ Written("Y_COORDINATES") => CountOn("Y_COORDINATES") = ny
           /\ Written("Z_COORDINATES") => CountOn("Z_COORDINATES") = nz
           /\ Written("POINT_DATA") => CountOn("POINT_DATA") = nx * ny * nz
           /\ Written("CELL_DATA") =>
                /\ nx >= 1 /\ ny >= 1 /\ nz >= 1
                /\ CountOn("CELL_DATA") = (nx - 1) * (ny - 1) * (nz - 1)
           /\ Ok => Written("POINT_DATA") /\ Written("CELL_DATA")

\* The cell-type codes in the sink, as written.
CodesWritten == SelectSeq(sink, LAMBDA c : c.sec = "CellTypes" /\ c.k \in {"elem", "tok"})

\* The code of one cell as each sink writes it: `t as i32` in the byte order,
\* or `t as u8` in decimal.
CodeOf(t) == IF sinkT = "Vec" THEN write_elem("i32", BO, t) ELSE <<t % 256>>

CellCounts(num_types) ==
    /\ Written("CELLS") => CountOn("CELLS") = vtk.data.cells.num_cells
    /\ Written("CELL_TYPES") => CountOn("CELL_TYPES") = num_types
    /\ Written("CELL_DATA") => CountOn("CELL_DATA") = vtk.data.cells.num_cells
    /\ Len(CodesWritten) <= Len(vtk.data.cell_types)
    /\ \A j \in 1..Len(CodesWritten) : CodesWritten[j].b = CodeOf(vtk.data.cell_types[j])
    /\ CodesWritten # <<>> => Written("CELL_TYPES")
    /\ Written("POINT_DATA") => Len(CodesWritten) = num_types

\* C15 (as amended): for every UnstructuredGrid written, the CELLS and
\* CELL_DATA header lines carry cells.num_cells, the CELL_TYPES header line
\* carries cell_types.len(), and exactly cell_types.len() codes follow it, one
\* per element of cell_types in order; the three counts are the same number
\* exactly when the document has one cell type per cell.
C15_CellTypesCount ==
    vtk.data.t = "UnstructuredGrid" => CellCounts(Len(vtk.data.cell_types))

\* C15 witness: a grid with two cells and one cell type was written.
C15_Witness ==
    /\ Ok /\ vtk.data.t = "UnstructuredGrid"
    /\ vtk.data.cells.num_cells = 2 /\ Len(vtk.data.cell_types) = 1
    /\ Len(CodesWritten) = 1

\* C15 (as claimed): the CELL_TYPES count is numCells, the count of the CELLS
\* and CELL_DATA lines, and exactly numCells codes follow it.
C15_SameCount ==
    vtk.data.t = "UnstructuredGrid" => CellCounts(vtk.data.cells.num_cells)

\* The step that failed is part of a payload: an element, a token, a buffer,
\* or the newline that closes them.
PayloadFailed == Failed /\ Label(FailingStep.out) = "payload"

\* The last k elements of a sequence.
Suffix(seq, k) == SubSeq(seq, Len(seq) - k + 1, Len(seq))

\* C16: when a payload step fails with an IO error of kind k, the error
\* returned is a section's Data part carrying Some(k); when it fails with a
\* formatting error the Data part carries None; io::Error converts to
\* IOError(kind) and fmt::Error to FormatError.
C16_KindPreserved ==
    /\ \A k \in IOErrorKinds : FromIoError(k) = <<"IOError", k>>
    /\ FromFmtError = <<"FormatError">>
    /\ PayloadFailed =>
         /\ result[2] \in {"Attribute", "DataSet"}
         /\ IF sinkT = "Vec"
            THEN \E k \in IOErrorKinds : Suffix(result, 3) = <<"Data", "Some", k>>
            ELSE Suffix(result, 2) = <<"Data", "None">>

\* t is a token of the grammar the operation f parses.
InGrammar(f, t) ==
    CASE f = "real" -> IsRealToken(t)
      [] f = "integer" -> AllDigits(Unsigned(t))
      [] f = "unsigned" -> AllDigits(t)

\* The length of the longest prefix of i in the grammar of f (0: none).
LongestToken(f, i) ==
    LET ks == {k \in 1..Len(i) : InGrammar(f, Take(i, k))}
    IN IF ks = {} THEN 0 ELSE CHOOSE k \in ks : \A j \in ks : j <= k

\* The value of a token, or <<>> when it does not fit the integer type.
TokenValue(f, T, t) == IF f = "real" THEN <<float_from_str(t)>> ELSE int_from_str(T, t)

\* C17: real accepts exactly sign? (digits '.' digits? | digits? '.' digits |
\* digits) ((e|E) sign? digits)?, unsigned exactly digits, integer exactly
\* sign? digits; on success the consumed prefix is the longest prefix of the
\* input in the grammar (all of "4.", "-.3", "-3.2e2") and the rest is
\* returned as remaining input.
C17_LongestToken ==
    (dOp # <<>> /\ dOp.f \in {"real", "integer", "unsigned"}) =>
        LET k == LongestToken(dOp.f, dIn) IN
        /\ dOut.t = "Done" => /\ k > 0
                              /\ dOut.rest = Drop(dIn, k)
                              /\ dOut.out = TokenValue(dOp.f, dOp.T, Take(dIn, k))
        /\ (k > 0 /\ TokenValue(dOp.f, dOp.T, Take(dIn, k)) # <<>>) => dOut.t = "Done"

BulkForms == {"parse_data_bit_vec", "parse_data_vec_u8", "parse_data_vec_i8"}

\* The bytes a dedicated bulk form needs in Binary mode.
BytesNeeded(f, n) == IF f = "parse_data_bit_vec" THEN (n + 7) \div 8 ELSE n

\* C18: in Binary mode parse_data_bit_vec consumes exactly ceil(n/8) bytes and
\* returns them unchanged, parse_data_vec_u8 / parse_data_vec_i8 consume
\* exactly n bytes and return them as the raw span (read as i8 by the latter);
\* each is Incomplete when fewer bytes remain.  In ASCII mode all three
\* consume one token per element, n tokens in total.
C18_BulkForms ==
    (dOp # <<>> /\ dOp.f \in BulkForms) =>
        LET need == BytesNeeded(dOp.f, dOp.n)
            raw == Take(dIn, need)
        IN /\ (dFt = "Binary" /\ Len(dIn) >= need) =>
                dOut = Done(Drop(dIn, need),
                            IF dOp.f = "parse_data_vec_i8"
                            THEN [k \in 1..need |-> TwosComplement(raw[k])] ELSE raw)
           /\ (dFt = "Binary" /\ Len(dIn) < need) => dOut.t = "Incomplete"
           /\ (dFt = "ASCII" /\ dOut.t = "Done") =>
                /\ Len(dOut.out) = dOp.n
                /\ IsTokens(dOp.T, Consumed(dIn, dOut.rest), dOut.out)

\* C18 witness: nine bits were read from two of the bytes of a longer input.
C18_Witness ==
    /\ Applied("parse_data_bit_vec")
    /\ dFt = "Binary" /\ dOp.n = 9 /\ Len(dIn) > 2
    /\ dOut.t = "Done" /\ Len(dOut.out) = 2

\* The three values on the DIMENSIONS line of the sink.
DimensionsWritten == sink[IndexOf(sink, "DIMENSIONS", 1)].n

\* C19: every StructuredGrid written carries CELL_DATA 1 and every ImageData
\* CELL_DATA 0, whatever the extent and the data; POINT_DATA carries
\* points.len() / 3 for a StructuredGrid and the product of the three
\* DIMENSIONS values for an ImageData.
C19_FixedCellCounts ==
    /\ vtk.data.t = "StructuredGrid" =>
         /\ Written("CELL_DATA") => CountOn("CELL_DATA") = 1
         /\ Written("POINT_DATA") => CountOn("POINT_DATA") = Len(vtk.data.points.v) \div 3
         /\ Ok => Written("POINT_DATA") /\ Written("CELL_DATA")
    /\ vtk.data.t = "ImageData" =>
         /\ Written("CELL_DATA") => CountOn("CELL_DATA") = 0
         /\ Written("POINT_DATA") =>
              /\ Written("DIMENSIONS")
              /\ CountOn("POINT_DATA") =
                   DimensionsWritten[1] * DimensionsWritten[2] * DimensionsWritten[3]
         /\ Ok => Written("POINT_DATA") /\ Written("CELL_DATA")

\* C19 witness: a StructuredGrid of two points along one axis was written.
C19_Witness ==
    /\ Ok /\ vtk.data.t = "StructuredGrid"
    /\ DimensionsWritten = <<2, 1, 1>>
    /\ CountOn("POINT_DATA") = 2 /\ CountOn("CELL_DATA") = 1

\* What the steps of the call in progress have appended so far.
EmittedSoFar == Emitted(SubSeq(prog, 1, pc - 1))

\* The serialization an earlier call produced.
Serialized(call) == Emitted(write_vtk_impl(sinkT, call.BO, call.vtk))

\* C20: a write only appends: at every point of a write, and at its return
\* with Ok or Err, the sink holds the content P it had when the entry point was
\* called, followed by what the write has emitted so far; successive writes
\* that succeed leave the concatenation of their serializations.
C20_AppendOnly ==
    /\ sink = prior \o EmittedSoFar
    /\ Ok => sink = prior \o FullOutput
    /\ (Ok /\ \A i \in 1..Len(earlier) : earlier[i].result = <<"Ok">>) =>
         sink = Concat([i \in 1..Len(earlier) |-> Serialized(earlier[i])]) \o FullOutput

\* C20 witness: a second write succeeded on the binary sink after a first
\* one, each with an output of its own.
C20_Witness ==
    /\ Ok /\ sinkT = "Vec"
    /\ Len(earlier) = 1 /\ earlier[1].result = <<"Ok">>
    /\ earlier[1].vtk # vtk /\ earlier[1].BO # BO
    /\ prior = Serialized(earlier[1])
    /\ Len(sink) > Len(prior)

\* What the same call with the other byte order appends when it succeeds.
OtherOrder == IF BO = "LE" THEN "BE" ELSE "LE"

\* The steps of the same call with the other byte order.
StepsInOtherOrder == write_vtk_impl(sinkT, OtherOrder, vtk)

OutputInOtherOrder == Emitted(StepsInOtherOrder)

\* A binary element of a type wider than one byte.
MultiByte(c) == c.k = "elem" /\ size_of(c.s[1]) > 1

\* C21: the byte order affects only multi-byte binary payloads: on the text
\* sink the output is the same whatever the entry point; on the binary sink
\* the outputs in the two byte orders have the same length, the same
\* keyword/header lines and the same 1-byte payloads, and each multi-byte
\* element of one is the byte-reversed element of the other.
C21_ByteOrderOnlyInPayload ==
    pc > 0 =>
      LET steps == StepsInOtherOrder
          other == Emitted(steps)
      IN /\ Len(other) = Len(Emitted(prog))
         /\ Len(VecBytes(steps)) = Len(VecBytes(prog))
         /\ sinkT = "String" => other = Emitted(prog)
         /\ \A i \in 1..Len(sink) :
              IF sinkT = "Vec" /\ MultiByte(sink[i])
              THEN /\ other[i] = [sink[i] EXCEPT !.b = Reverse(@)]
                   /\ Len(sink[i].b) = size_of(sink[i].s[1])
              ELSE other[i] = sink[i]

\* C21 witness: a big-endian binary write completed with a 1-byte payload and
\* a multi-byte element whose bytes differ between the two orders.
C21_Witness ==
    /\ Ok /\ sinkT = "Vec" /\ BO = "BE"
    /\ \E i \in 1..Len(sink) : sink[i].k = "elem" /\ size_of(sink[i].s[1]) = 1
    /\ \E i \in 1..Len(sink) : MultiByte(sink[i]) /\ OutputInOtherOrder[i] # sink[i]

====
